---------------------------- MODULE Spec2Model ----------------------------
(***************************************************************************)
(* Weight-table state machine of the portfolio backtester.                 *)
(*                                                                         *)
(* The repository holds two runnable Streamlit scripts, src/app.py and     *)
(* src/app_v3.py.  Both keep the weight table in st.session_state.weights. *)
(* The variable `app` says which script the session runs; it is chosen at  *)
(* start-up and never changes.                                             *)
(*                                                                         *)
(* Streamlit runs a widget's on_change callback first and then re-runs the *)
(* whole script.  One UI event is therefore two steps of the model: the    *)
(* event action (widget state updated, callback run to completion), which  *)
(* leaves pc = "rerun", and Rerun (the script body, top to bottom), which  *)
(* leaves pc = "idle".                                                     *)
(*                                                                         *)
(* Python floats are modelled as exact rationals <<num, den>> (den > 0,    *)
(* lowest terms); <<0, 0>> is NaN.  Strings are sequences of one-character *)
(* strings so that strip(), upper() and the regular expression of          *)
(* validate_ticker are computed rather than assumed.  A Python dict is a   *)
(* function; its insertion order is not modelled.                          *)
(*                                                                         *)
(* Widgets are keyed.  A keyed widget returns st.session_state[key] when   *)
(* the key is present and its value= argument otherwise.  Two widgets with *)
(* the same key in one run, and a write to the key of a widget already     *)
(* instantiated in the run, raise an exception that ends the run.          *)
(***************************************************************************)
EXTENDS Integers, Sequences, FiniteSets, TLC

\* Slots the model drives.  Both scripts loop over range(5); the rows are
\* handled uniformly, and the model keeps the first NumSlots of them.
NumSlots == 2

\* Number of UI events in one session of the model.
MaxEvents == 6

Slots == 0 .. (NumSlots - 1)

---------------------------------------------------------------------------
(* Exact rationals standing for Python floats *)

NaN == <<0, 0>>

IsNaN(x) == x[2] = 0

Abs(n) == IF n < 0 THEN -n ELSE n

RECURSIVE GCD(_, _)
GCD(a, b) == IF b = 0 THEN a ELSE GCD(b, a % b)

\* n/d in lowest terms with a positive denominator (d # 0).
Rat(n, d) ==
    LET g == GCD(Abs(n), Abs(d))
        s == IF d < 0 THEN -1 ELSE 1
    IN  <<(s * n) \div g, (s * d) \div g>>

Num(n) == <<n, 1>>

Zero == Num(0)

Hundred == Num(100)

RAdd(x, y) ==
    IF IsNaN(x) \/ IsNaN(y) THEN NaN
    ELSE Rat(x[1] * y[2] + y[1] * x[2], x[2] * y[2])

RSub(x, y) ==
    IF IsNaN(x) \/ IsNaN(y) THEN NaN
    ELSE Rat(x[1] * y[2] - y[1] * x[2], x[2] * y[2])

RMul(x, y) ==
    IF IsNaN(x) \/ IsNaN(y) THEN NaN
    ELSE Rat(x[1] * y[1], x[2] * y[2])

\* x / y for y # 0 (Python raises ZeroDivisionError for y = 0; the callers
\* test for it).
RDiv(x, y) ==
    IF IsNaN(x) \/ IsNaN(y) THEN NaN
    ELSE Rat(x[1] * y[2], x[2] * y[1])

\* Comparisons with NaN are false, as in Python.
RLt(x, y) == ~IsNaN(x) /\ ~IsNaN(y) /\ x[1] * y[2] < y[1] * x[2]

RLe(x, y) == ~IsNaN(x) /\ ~IsNaN(y) /\ x[1] * y[2] <= y[1] * x[2]

RAbs(x) == IF IsNaN(x) THEN NaN ELSE <<Abs(x[1]), x[2]>>

\* sum(d.values())
RECURSIVE SumOver(_, _)
SumOver(d, keys) ==
    IF keys = {} THEN Zero
    ELSE LET k == CHOOSE k \in keys : TRUE
         IN  RAdd(d[k], SumOver(d, keys \ {k}))

Total(d) == SumOver(d, DOMAIN d)

---------------------------------------------------------------------------
(* Strings, lists and dicts *)

Range(s) == {s[k] : k \in 1 .. Len(s)}

UpperAlphabet ==
    <<"A", "B", "C", "D", "E", "F", "G", "H", "I", "J", "K", "L", "M",
      "N", "O", "P", "Q", "R", "S", "T", "U", "V", "W", "X", "Y", "Z">>

LowerAlphabet ==
    <<"a", "b", "c", "d", "e", "f", "g", "h", "i", "j", "k", "l", "m",
      "n", "o", "p", "q", "r", "s", "t", "u", "v", "w", "x", "y", "z">>

UpperLetters == Range(UpperAlphabet)

\* The upper-case letter of each lower-case letter
UpperOf ==
    [c \in Range(LowerAlphabet) |->
        UpperAlphabet[CHOOSE k \in 1 .. Len(LowerAlphabet) : LowerAlphabet[k] = c]]

UpperChar(c) == IF c \in DOMAIN UpperOf THEN UpperOf[c] ELSE c

\* str.upper()
Upper(s) == [k \in 1 .. Len(s) |-> UpperChar(s[k])]

\* str.strip(), for the blank as the whitespace character
RECURSIVE LStrip(_)
LStrip(s) == IF s # <<>> /\ Head(s) = " " THEN LStrip(Tail(s)) ELSE s

RECURSIVE RStrip(_)
RStrip(s) ==
    IF s # <<>> /\ s[Len(s)] = " " THEN RStrip(SubSeq(s, 1, Len(s) - 1)) ELSE s

Strip(s) == RStrip(LStrip(s))

\* validate_ticker with the character class dropped: ^.{1,5}$
validate_ticker_any_char(ticker) == Len(ticker) \in 1 .. 5

\* re.match(r'^[A-Z]{1,5}$', ticker), as a truth value
validate_ticker(ticker) ==
    /\ Len(ticker) \in 1 .. 5
    /\ \A k \in 1 .. Len(ticker) : ticker[k] \in UpperLetters

\* Texts typed into a ticker box.
RawTexts ==
    { <<>>,
      <<"A">>,
      <<" ", "a", " ">>,
      <<"B">>,
      <<"a", "b", "c", "d", "e">>,
      <<"A", "1">>,
      <<"A", "B", "C", "D", "E", "F">> }

Empty == [k \in {} |-> Zero]

\* d.get(k, default)
Get(d, k, default) == IF k \in DOMAIN d THEN d[k] ELSE default

\* d[k] = v
Put(d, k, v) == [x \in DOMAIN d \cup {k} |-> IF x = k THEN v ELSE d[x]]

\* del d[k]
Del(d, k) == [x \in DOMAIN d \ {k} |-> d[x]]

\* list.remove(x): the first occurrence
RECURSIVE Remove(_, _)
Remove(s, x) ==
    IF s = <<>> THEN s
    ELSE IF Head(s) = x THEN Tail(s) ELSE <<Head(s)>> \o Remove(Tail(s), x)

---------------------------------------------------------------------------
(* Session state *)

VARIABLES
    app,            \* "app" (src/app.py) or "app_v3" (src/app_v3.py)
    pc,             \* "idle": waiting for an event; "rerun": callback returned
    events,         \* UI events handled so far
    enable,         \* st.session_state[f"enable_{i}"]
    text,           \* st.session_state[f"ticker_{i}"], as typed
    weights,        \* st.session_state.weights
    ticker_data,    \* app_v3: st.session_state.ticker_data
    valid_tickers,  \* app_v3: st.session_state.valid_tickers
    wstate,         \* app_v3: st.session_state[f"weight_{ticker}"]
    tickers,        \* app: st.session_state.tickers
    prev_tickers,   \* app: st.session_state.prev_tickers (when has_prev)
    has_prev,       \* app: 'prev_tickers' in st.session_state
    shown,          \* rows whose checkbox and text box the last run drew
    controls,       \* tickers whose weight widgets the last run drew
    last,           \* the callback the last event ran ("none": no callback)
    err,            \* the exception that ended the last script run, or "none"
    invalid_msg     \* app_v3: the last handler called st.error (line 73)

vars ==
    <<app, pc, events, enable, text, weights, ticker_data, valid_tickers,
      wstate, tickers, prev_tickers, has_prev, shown, controls, last, err,
      invalid_msg>>

\* number_input(min_value=0.0, max_value=100.0)
MinValue == 0

MaxValue == 100

\* Numbers typed into a weight number_input of app_v3.
WeightEntries == {Num(-5), Num(0), Num(50), Num(150)}

\* The number_input widget keeps its value inside [min_value, max_value].
NumberInput(v) ==
    IF RLt(v, Num(MinValue)) THEN Num(MinValue)
    ELSE IF RLt(Num(MaxValue), v) THEN Num(MaxValue)
    ELSE v

---------------------------------------------------------------------------
(* src/app_v3.py *)

\* normalize_weights(), as a function of the weight table and valid_tickers
normalize_weights(w, vt) ==
    LET total == Total(w)
    IN  IF total = Zero
        THEN LET equal_weight ==
                     IF vt # <<>> THEN RDiv(Hundred, Num(Len(vt))) ELSE Zero
             IN  [t \in Range(vt) |-> equal_weight]
        ELSE [t \in DOMAIN w |-> RMul(RDiv(w[t], total), Hundred)]

\* handle_ticker_change, line 55
NewTicker(index, tx) == Upper(Strip(tx[index]))

\* handle_ticker_change, line 59: st.session_state.ticker_data.get(index, {}).get('value', '')
StoredValue(index) ==
    IF index \in DOMAIN ticker_data THEN ticker_data[index].value ELSE <<>>

\* handle_valid_tickers with the membership test of line 68 dropped
handle_valid_tickers_no_test(index, en, tx) ==
    LET ticker == NewTicker(index, tx)
        vt1 == IF ticker # StoredValue(index) /\ ticker \in Range(valid_tickers)
               THEN Remove(valid_tickers, ticker)
               ELSE valid_tickers
    IN  IF en[index] /\ ticker # <<>> /\ validate_ticker(ticker)
        THEN Append(vt1, ticker)
        ELSE vt1

\* handle_ticker_change, lines 59-61 and 66-69: valid_tickers after the handler
handle_valid_tickers(index, en, tx) ==
    LET ticker == NewTicker(index, tx)
        vt1 == IF ticker # StoredValue(index) /\ ticker \in Range(valid_tickers)
               THEN Remove(valid_tickers, ticker)
               ELSE valid_tickers
    IN  IF en[index] /\ ticker # <<>> /\ validate_ticker(ticker)
           /\ ticker \notin Range(vt1)
        THEN Append(vt1, ticker)
        ELSE vt1

\* handle_ticker_change, lines 59-63 and 66-71: the weight table before line 82
handle_weights(index, en, tx) ==
    LET ticker == NewTicker(index, tx)
        w1 == IF ticker # StoredValue(index) /\ ticker \in DOMAIN weights
              THEN Del(weights, ticker)
              ELSE weights
    IN  IF en[index] /\ ticker # <<>> /\ validate_ticker(ticker)
           /\ ticker \notin DOMAIN w1
        THEN Put(w1, ticker, Zero)
        ELSE w1

\* handle_ticker_change(index), run on the widget state en, tx of the event
handle_ticker_change(index, en, tx) ==
    LET ticker == NewTicker(index, tx)
        vt == handle_valid_tickers(index, en, tx)
    IN  /\ valid_tickers' = vt
        /\ invalid_msg' = (en[index] /\ ticker # <<>> /\ ~validate_ticker(ticker))
        /\ ticker_data' = Put(ticker_data, index,
                              [enabled |-> en[index],
                               value |-> ticker,
                               valid |-> en[index] /\ validate_ticker(ticker)])
        /\ weights' = normalize_weights(handle_weights(index, en, tx), vt)
        /\ last' = "handle_ticker_change"

\* An event was delivered and its callback has returned; the script re-runs.
Delivered ==
    /\ pc = "idle"
    /\ events < MaxEvents
    /\ events' = events + 1
    /\ pc' = "rerun"

\* checkbox enable_i toggled (lines 92-98)
V3Toggle(i) ==
    /\ app = "app_v3"
    /\ Delivered
    /\ i < shown
    /\ enable' = [enable EXCEPT ![i] = ~enable[i]]
    /\ handle_ticker_change(i, enable', text)
    /\ UNCHANGED <<app, text, wstate, tickers, prev_tickers, has_prev, shown,
                   controls, err>>

\* text box ticker_i edited (lines 100-109); the box is disabled unless the
\* row's checkbox is ticked
V3EditTicker(i, raw) ==
    /\ app = "app_v3"
    /\ Delivered
    /\ i < shown
    /\ enable[i]
    /\ raw # text[i]
    /\ text' = [text EXCEPT ![i] = raw]
    /\ handle_ticker_change(i, enable, text')
    /\ UNCHANGED <<app, enable, wstate, tickers, prev_tickers, has_prev, shown,
                   controls, err>>

\* number_input weight_<ticker> edited (lines 112-122): the widget state takes
\* the entry and on_change=normalize_weights runs before the script does
V3EditWeight(t, entry) ==
    /\ app = "app_v3"
    /\ Delivered
    /\ t \in controls
    /\ NumberInput(entry) # wstate[t]
    /\ wstate' = [wstate EXCEPT ![t] = NumberInput(entry)]
    /\ weights' = normalize_weights(weights, valid_tickers)
    /\ last' = "normalize_weights"
    /\ invalid_msg' = FALSE
    /\ UNCHANGED <<app, enable, text, ticker_data, valid_tickers, tickers,
                   prev_tickers, has_prev, shown, controls, err>>

\* The sidebar loop of the script (lines 88-123) from row i on.  st is the
\* run so far: w the weight table, ws the number_input values of this run,
\* ctl the weight keys instantiated, rows the rows drawn, err the exception.
\* Two enabled rows with the same valid text ask for the same key
\* weight_<ticker> (line 117): the second number_input raises
\* DuplicateWidgetID and the run ends there.
RECURSIVE V3Rows(_, _)
V3Rows(i, st) ==
    IF i = NumSlots \/ st.err # "none" THEN st
    ELSE IF enable[i] /\ text[i] # <<>> /\ validate_ticker(text[i])
    THEN IF text[i] \in st.ctl
         THEN [st EXCEPT !.err = "DuplicateWidgetID", !.rows = i + 1]
         ELSE LET ticker == text[i]
                  weight == IF ticker \in DOMAIN wstate THEN wstate[ticker]
                            ELSE Get(st.w, ticker, Zero)
              IN  V3Rows(i + 1, [w |-> Put(st.w, ticker, weight),
                                 ws |-> Put(st.ws, ticker, weight),
                                 ctl |-> st.ctl \cup {ticker},
                                 rows |-> i + 1,
                                 err |-> "none"])
    ELSE V3Rows(i + 1, [st EXCEPT !.rows = i + 1])

\* One run of the script of app_v3.py (lines 88-137)
V3Rerun ==
    /\ app = "app_v3"
    /\ pc = "rerun"
    /\ pc' = "idle"
    /\ LET st == V3Rows(0, [w |-> weights, ws |-> Empty, ctl |-> {},
                            rows |-> 0, err |-> "none"])
       IN  /\ err' = st.err
           /\ shown' = st.rows
           /\ controls' = st.ctl
           /\ IF st.err = "none"
              THEN /\ wstate' = st.ws
                   /\ weights' = IF valid_tickers # <<>>
                                 THEN normalize_weights(st.w, valid_tickers)
                                 ELSE st.w
              ELSE /\ wstate' = [t \in DOMAIN wstate \cup DOMAIN st.ws |->
                                    IF t \in DOMAIN st.ws THEN st.ws[t]
                                    ELSE wstate[t]]
                   /\ weights' = st.w
    /\ UNCHANGED <<app, events, enable, text, ticker_data, valid_tickers,
                   tickers, prev_tickers, has_prev, last, invalid_msg>>

---------------------------------------------------------------------------
(* src/app.py *)

Digits == {"0", "1", "2", "3", "4", "5", "6", "7", "8", "9"}

DigitValue(c) ==
    CASE c = "0" -> 0 [] c = "1" -> 1 [] c = "2" -> 2 [] c = "3" -> 3
      [] c = "4" -> 4 [] c = "5" -> 5 [] c = "6" -> 6 [] c = "7" -> 7
      [] c = "8" -> 8 [] c = "9" -> 9

IsDigits(s) == s # <<>> /\ \A k \in 1 .. Len(s) : s[k] \in Digits

RECURSIVE Decimal(_)
Decimal(s) ==
    IF s = <<>> THEN 0
    ELSE 10 * Decimal(SubSeq(s, 1, Len(s) - 1)) + DigitValue(s[Len(s)])

\* float(s) accepts a signed decimal numeral and the word nan, among others;
\* anything else raises ValueError.
FloatOk(s) ==
    LET t == Strip(s)
    IN  \/ IsDigits(t)
        \/ t # <<>> /\ Head(t) = "-" /\ IsDigits(Tail(t))
        \/ t = <<"n", "a", "n">>

\* float(s), where FloatOk(s)
Float(s) ==
    LET t == Strip(s)
    IN  IF t = <<"n", "a", "n">> THEN NaN
        ELSE IF Head(t) = "-" THEN Num(0 - Decimal(Tail(t)))
        ELSE Num(Decimal(t))

\* Texts typed into a weight text box of app.py.
WeightTexts ==
    { <<"0">>, <<"5", "0">>, <<"1", "5", "0">>, <<"-", "5">>,
      <<"a", "b", "c">>, <<"n", "a", "n">> }

\* update_weight_from_text, lines 88-92: the value stored for the text typed
ClampedValue(typed) ==
    LET value == Float(typed)
    IN  IF RLt(value, Zero) THEN Zero
        ELSE IF RLt(Hundred, value) THEN Hundred
        ELSE value

\* update_weight_from_text(ticker): the weight table after the callback
update_weight_from_text(ticker, typed) ==
    IF FloatOk(typed) THEN Put(weights, ticker, ClampedValue(typed)) ELSE weights

\* checkbox enable_i toggled (line 45); it has no callback
AppToggle(i) ==
    /\ app = "app"
    /\ Delivered
    /\ i < shown
    /\ enable' = [enable EXCEPT ![i] = ~enable[i]]
    /\ last' = "none"
    /\ UNCHANGED <<app, text, weights, ticker_data, valid_tickers, wstate,
                   tickers, prev_tickers, has_prev, shown, controls, err,
                   invalid_msg>>

\* text box ticker_i edited (lines 48-54); the box of an unticked row is disabled
AppEditTicker(i, raw) ==
    /\ app = "app"
    /\ Delivered
    /\ i < shown
    /\ enable[i]
    /\ raw # text[i]
    /\ text' = [text EXCEPT ![i] = raw]
    /\ last' = "none"
    /\ UNCHANGED <<app, enable, weights, ticker_data, valid_tickers, wstate,
                   tickers, prev_tickers, has_prev, shown, controls, err,
                   invalid_msg>>

\* weight text box text_<ticker> edited (lines 106-112)
AppEditWeightText(t, typed) ==
    /\ app = "app"
    /\ Delivered
    /\ t \in controls
    /\ weights' = update_weight_from_text(t, typed)
    /\ last' = "update_weight_from_text"
    /\ UNCHANGED <<app, enable, text, ticker_data, valid_tickers, wstate,
                   tickers, prev_tickers, has_prev, shown, controls, err,
                   invalid_msg>>

\* slider slider_<ticker> moved (lines 114-124): update_weight_from_slider
\* copies the slider value into the key text_<ticker> and leaves the weight
\* table alone
AppMoveSlider(t) ==
    /\ app = "app"
    /\ Delivered
    /\ t \in controls
    /\ last' = "update_weight_from_slider"
    /\ UNCHANGED <<app, enable, text, weights, ticker_data, valid_tickers,
                   wstate, tickers, prev_tickers, has_prev, shown, controls,
                   err, invalid_msg>>

\* lines 42-57: the ticker a row contributes
RowTicker(i) == Upper(Strip(text[i]))

\* lines 39-57: selected_tickers, rows i .. NumSlots-1
RECURSIVE selected_tickers(_)
selected_tickers(i) ==
    IF i = NumSlots THEN <<>>
    ELSE IF enable[i] /\ RowTicker(i) # <<>>
    THEN <<RowTicker(i)>> \o selected_tickers(i + 1)
    ELSE selected_tickers(i + 1)

\* lines 72-80: the weight table after the reset test
reset_weights(selected) ==
    IF ~has_prev \/ prev_tickers # selected
    THEN IF Len(selected) > 0
         THEN [t \in Range(selected) |-> RDiv(Hundred, Num(Len(selected)))]
         ELSE Empty
    ELSE weights

\* lines 103-126: the weight widgets drawn before a key repeats
RECURSIVE DrawnControls(_, _)
DrawnControls(selected, ctl) ==
    IF selected = <<>> \/ Head(selected) \in ctl THEN ctl
    ELSE DrawnControls(Tail(selected), ctl \cup {Head(selected)})

\* abs(total_weight - 100) > 0.1, line 130
NeedsBalance(w) == RLt(Rat(1, 10), RAbs(RSub(Total(w), Hundred)))

\* One run of the script of app.py (lines 38-137).  The run ends early when
\*   - a ticker occurs twice in selected_tickers: the second text_input with
\*     key text_<ticker> (line 106) raises DuplicateWidgetID;
\*   - the auto-balance divides by total_weight = 0 (line 133);
\*   - the auto-balance writes st.session_state[f"text_{ticker}"] (line 134),
\*     the key of a text_input this run has already instantiated (line 106):
\*     the first ticker's weight is assigned (line 133) and the write raises.
\* The contents of the keys text_<ticker> and slider_<ticker> are not part of
\* the state: the weight logic reads text_<ticker> only in the callback of the
\* edit that has just set it (the parameter typed of AppEditWeightText).
AppRerun ==
    /\ app = "app"
    /\ pc = "rerun"
    /\ pc' = "idle"
    /\ LET selected == selected_tickers(0)
           w1 == reset_weights(selected)
           ctl == DrawnControls(selected, {})
           total_weight == Total(w1)
           first == Head(selected)
       IN  /\ tickers' = [i \in Slots |->
                             IF enable[i] THEN RowTicker(i) ELSE tickers[i]]
           /\ prev_tickers' = selected
           /\ has_prev' = TRUE
           /\ shown' = NumSlots
           /\ controls' = IF selected = <<>> THEN {} ELSE ctl
           /\ IF selected = <<>>
              THEN weights' = w1 /\ err' = "none"
              ELSE IF ctl # Range(selected) \/ Cardinality(ctl) # Len(selected)
              THEN weights' = w1 /\ err' = "DuplicateWidgetID"
              ELSE IF ~NeedsBalance(w1)
              THEN weights' = w1 /\ err' = "none"
              ELSE IF total_weight = Zero
              THEN weights' = w1 /\ err' = "ZeroDivisionError"
              ELSE /\ weights' = Put(w1, first,
                                     RMul(RDiv(w1[first], total_weight), Hundred))
                   /\ err' = "StreamlitAPIException"
    /\ UNCHANGED <<app, events, enable, text, ticker_data, valid_tickers,
                   wstate, last, invalid_msg>>

---------------------------------------------------------------------------
(* The session *)

\* Session state before the first run of the script (app.py lines 9-13,
\* app_v3.py lines 10-15); the first run is pending.
Init ==
    /\ app \in {"app", "app_v3"}
    /\ pc = "rerun"
    /\ events = 0
    /\ enable = [i \in Slots |-> FALSE]
    /\ text = [i \in Slots |-> <<>>]
    /\ weights = Empty
    /\ ticker_data = Empty
    /\ valid_tickers = <<>>
    /\ wstate = Empty
    /\ tickers = [i \in Slots |-> <<>>]
    /\ prev_tickers = <<>>
    /\ has_prev = FALSE
    /\ shown = 0
    /\ controls = {}
    /\ last = "none"
    /\ err = "none"
    /\ invalid_msg = FALSE

Next ==
    \/ \E i \in Slots : V3Toggle(i)
    \/ \E i \in Slots, raw \in RawTexts : V3EditTicker(i, raw)
    \/ \E t \in controls, entry \in WeightEntries : V3EditWeight(t, entry)
    \/ V3Rerun
    \/ \E i \in Slots : AppToggle(i)
    \/ \E i \in Slots, raw \in RawTexts : AppEditTicker(i, raw)
    \/ \E t \in controls, typed \in WeightTexts : AppEditWeightText(t, typed)
    \/ \E t \in controls : AppMoveSlider(t)
    \/ AppRerun

Spec == Init /\ [][Next]_vars

---------------------------------------------------------------------------
(* Properties *)

\* A callback has just returned to the framework.
HandlerReturned == pc = "rerun" /\ last # "none"

\* The slots of app_v3 that are enabled and hold s as their committed ticker.
HeldBy(s) ==
    {i \in DOMAIN ticker_data :
        /\ ticker_data[i].enabled
        /\ ticker_data[i].valid
        /\ ticker_data[i].value = s}

\* The slot a checkbox or text-box event of this step was delivered to.
EventOn(i) ==
    /\ pc = "idle"
    /\ pc' = "rerun"
    /\ (enable'[i] # enable[i] \/ text'[i] # text[i])

\* 1-5 uppercase ASCII letters: the Symbol pattern of the data model
IsSymbol(s) ==
    /\ Len(s) >= 1
    /\ Len(s) <= 5
    /\ \A k \in 1 .. Len(s) : s[k] \in UpperLetters

\* |sum - 100| <= 0.1
SumsTo100(w) == RLe(RAbs(RSub(Total(w), Hundred)), Rat(1, 10))

\* C1: whenever a callback has returned and the weight table is non-empty,
\* its weights sum to 100 within 0.1.
C1_SumTo100 ==
    (HandlerReturned /\ DOMAIN weights # {}) => SumsTo100(weights)

\* C2: every Symbol with an entry in the weight table or in valid_tickers is
\* the committed ticker of exactly one enabled slot.
C2_RegistryConsistency ==
    app = "app_v3" =>
        \A s \in DOMAIN weights \cup Range(valid_tickers) :
            Cardinality(HeldBy(s)) = 1

\* C3: when handle_ticker_change takes a committed Symbol s away from its
\* slot (the slot is disabled, cleared or edited to another text) and no other
\* slot holds s, s leaves the weight table and valid_tickers, and what is left
\* sums to 100.
C3_Eviction ==
    [][\A i \in DOMAIN ticker_data :
          LET s == ticker_data[i].value
          IN  (/\ app = "app_v3"
               /\ EventOn(i)
               /\ i \in HeldBy(s)
               /\ HeldBy(s)' = {})
              => /\ s \notin DOMAIN weights'
                 /\ s \notin Range(valid_tickers')
                 /\ (DOMAIN weights' # {} => SumsTo100(weights'))]_vars

\* C4: when handle_ticker_change commits a valid Symbol in an enabled slot
\* while the table has a non-zero total, every entry that was present keeps its
\* weight, and a Symbol without an entry is inserted with weight 0.
C4_WeightsKept ==
    [][\A i \in Slots :
          LET ticker == NewTicker(i, text')
          IN  (/\ app = "app_v3"
               /\ EventOn(i)
               /\ enable'[i]
               /\ validate_ticker(ticker)
               /\ Total(weights) # Zero)
              => /\ \A t \in DOMAIN weights :
                        t \in DOMAIN weights' /\ weights'[t] = weights[t]
                 /\ (ticker \notin DOMAIN weights => weights'[ticker] = Zero)]_vars

\* valid_tickers as the claim has it: the committed Symbols of the enabled
\* slots i .. NumSlots-1, in slot order
RECURSIVE InSlotOrder(_)
InSlotOrder(i) ==
    IF i = NumSlots THEN <<>>
    ELSE IF i \in DOMAIN ticker_data /\ i \in HeldBy(ticker_data[i].value)
    THEN <<ticker_data[i].value>> \o InSlotOrder(i + 1)
    ELSE InSlotOrder(i + 1)

\* C5: valid_tickers lists the enabled valid Symbols in ascending slot-index
\* order.  It is stated for the states in which every listed Symbol is held
\* by exactly one enabled slot and every enabled slot's Symbol is listed, so
\* that only the order is in question.
C5_SlotOrder ==
    (/\ app = "app_v3"
     /\ \A s \in Range(valid_tickers) : Cardinality(HeldBy(s)) = 1
     /\ Range(InSlotOrder(0)) = Range(valid_tickers))
    => valid_tickers = InSlotOrder(0)

\* The step edits the text of enabled slot i of app_v3 to raw.
EditsTo(i, raw) ==
    /\ app = "app_v3"
    /\ EventOn(i)
    /\ enable[i]
    /\ text'[i] = raw
    /\ text[i] # raw

\* What the claim promises for a rejected text: nothing committed, the error
\* surfaced, no entry created.
NothingCommitted(i) ==
    /\ ~ticker_data'[i].valid
    /\ invalid_msg'
    /\ DOMAIN weights' = DOMAIN weights
    /\ valid_tickers' = valid_tickers

\* C6 as stated: a non-empty text that is not a Symbol after trim and
\* uppercase, and the text abcde, commit nothing, surface the error and leave
\* the weight table unchanged.
C6_RejectsAsStated ==
    [][\A i \in Slots, raw \in RawTexts :
          (/\ EditsTo(i, raw)
           /\ Upper(Strip(raw)) # <<>>
           /\ (~IsSymbol(Upper(Strip(raw)))
                 \/ raw = <<"a", "b", "c", "d", "e">>))
          => NothingCommitted(i) /\ weights' = weights]_vars

\* C6 amended: a non-empty text that is not a Symbol after trim and uppercase
\* commits nothing, surfaces the error, adds and removes no entry, and leaves
\* the weights as they are when they already sum to 100; the text abcde is
\* not such a text, it commits the Symbol ABCDE.
C6_Rejects ==
    [][\A i \in Slots, raw \in RawTexts :
          /\ (/\ EditsTo(i, raw)
              /\ Upper(Strip(raw)) # <<>>
              /\ ~IsSymbol(Upper(Strip(raw))))
             => /\ NothingCommitted(i)
                /\ (Total(weights) = Hundred => weights' = weights)
          /\ (EditsTo(i, raw) /\ raw = <<"a", "b", "c", "d", "e">>)
             => /\ ticker_data'[i].valid
                /\ ~invalid_msg'
                /\ <<"A", "B", "C", "D", "E">> \in DOMAIN weights']_vars

\* C6 witness: a malformed text was just rejected in a session that already
\* holds a weight table.
C6_Witness ==
    /\ app = "app_v3"
    /\ HandlerReturned
    /\ invalid_msg
    /\ DOMAIN weights # {}
    /\ \E i \in Slots : enable[i] /\ ~IsSymbol(Upper(Strip(text[i])))

\* C7: no run of the weight-balancing code ends in a division by a zero
\* total weight.
C7_NoZeroDivision == err # "ZeroDivisionError"

\* The tables on which this step runs renormalization (none or one).
RenormInput ==
    IF app = "app_v3" /\ pc = "idle" /\ pc' = "rerun"
    THEN IF last' = "normalize_weights" THEN {weights}
         ELSE {handle_weights(i, enable', text') : i \in {j \in Slots : EventOn(j)}}
    ELSE IF app = "app_v3" /\ pc = "rerun"
    THEN IF err' = "none" /\ valid_tickers # <<>>
         THEN {V3Rows(0, [w |-> weights, ws |-> Empty, ctl |-> {},
                          rows |-> 0, err |-> "none"]).w}
         ELSE {}
    ELSE IF app = "app" /\ pc = "rerun"
    THEN IF selected_tickers(0) # <<>>
            /\ err' # "DuplicateWidgetID"
            /\ NeedsBalance(reset_weights(selected_tickers(0)))
         THEN {reset_weights(selected_tickers(0))}
         ELSE {}
    ELSE {}

\* C8: renormalization of a non-empty table whose weights sum to 0 gives
\* every entry 100/n, n the number of entries, and adds or drops none.
C8_EqualSplit ==
    [][\A w \in RenormInput :
          (DOMAIN w # {} /\ Total(w) = Zero)
          => weights' = [t \in DOMAIN w |->
                            RDiv(Hundred, Num(Cardinality(DOMAIN w)))]]_vars

\* C9: every weight in the weight table lies in [0, 100].
C9_WeightRange ==
    \A t \in DOMAIN weights :
        RLe(Zero, weights[t]) /\ RLe(weights[t], Hundred)

\* C10: after handle_ticker_change returns, valid_tickers has no duplicate
\* and lists exactly the Symbols that have an entry in the weight table.
C10_TableListAgree ==
    (app = "app_v3" /\ pc = "rerun" /\ last = "handle_ticker_change")
    => /\ Cardinality(Range(valid_tickers)) = Len(valid_tickers)
       /\ DOMAIN weights = Range(valid_tickers)

\* C10 witness: handle_ticker_change has returned with two Symbols listed.
C10_Witness ==
    /\ app = "app_v3"
    /\ pc = "rerun"
    /\ last = "handle_ticker_change"
    /\ Len(valid_tickers) >= 2
    /\ DOMAIN weights = Range(valid_tickers)

=============================================================================
